---- MODULE Spec2Model ----
(***************************************************************************)
(* PIOS system-call dispatch (kern/syscall.c): CPUTS, PUT, GET and RET,    *)
(* the fault-recoverable user copy (usercopy / checkva / sysrecover), and  *)
(* the reflection of traps to the parent (systrap).                        *)
(*                                                                         *)
(* Handlers are modelled step by step, one kernel position (pc) per        *)
(* process, so that handlers of a parent and of its children interleave    *)
(* as they do on two CPUs.  Addresses are AddrSpace-valued machine words   *)
(* (arithmetic modulo AddrSpace); the user region, page and page-table     *)
(* sizes are scaled down in proportion.  The collaborators that are not    *)
(* part of kern/syscall.c (proc_alloc, proc_wait, proc_ready, proc_ret,    *)
(* the scheduler, the pmap_* operations) follow their contracts.           *)
(***************************************************************************)
EXTENDS Integers, FiniteSets, Sequences, TLC

\* ------------------------------------------------------------------ bounds
MaxChildren == 2        \* processes proc_alloc can hand out before it fails
NCPU == 2               \* CPUs

\* ------------------------------------------------- machine constants (scaled)
AddrSpace == 16         \* 2^w: number of values of uint32_t, scaled
VM_USERLO == 4
VM_USERHI == 12
PAGESIZE == 2
PTSIZE == 4
NCHILD == 256           \* edx & 0xff
CPUTS_MAX == 3
TFSIZE == 1             \* offsetof(procstate, fx)
PSSIZE == 2             \* sizeof(procstate)
T_GPFLT == 13
T_PGFLT == 14
T_SYSCALL == 48
INTLEN == 2             \* length of the INT instruction

NULL == 0
\* cpu.recover == NULL: no recovery handler is installed.
NoRecover == "NULL"
ProcNull == 1           \* &proc_null
Root == 2
Procs == 1..(Root + MaxChildren)
RealProcs == Root..(Root + MaxChildren)
CPUs == 1..NCPU
Addr == 0..(AddrSpace - 1)

\* uint32_t subtraction
Sub32(a, b) == (a - b + AddrSpace) % AddrSpace
PGOFF(va) == va % PAGESIZE
PTOFF(va) == va % PTSIZE

\* user pages, by page number
UPages == (VM_USERLO \div PAGESIZE)..((VM_USERHI \div PAGESIZE) - 1)

\* eflags as the set of the bits that are set
FL_USER == {"CF", "PF", "AF", "ZF", "SF", "DF", "OF"}
FL_IF == {"IF"}
UCODE3 == "UCODE|3"
UDATA3 == "UDATA|3"

\* ------------------------------------------------------------ command word
\* The command word in EAX, by its fields: the type, the option bits, and the
\* two-bit MEMOP and RW fields.
MemOps == {"NONE", "ZERO", "COPY", "MERGE"}
Cmd(type, regs, fpu, memop, perm, rw, snap, start) ==
    [type |-> type, regs |-> regs, fpu |-> fpu, memop |-> memop,
     perm |-> perm, rw |-> rw, snap |-> snap, start |-> start]
ZeroCmd == Cmd("CPUTS", FALSE, FALSE, "NONE", FALSE, 0, FALSE, FALSE)

\* ------------------------------------------------------------- trapframe
Regs(eax, ebx, ecx, edx, esi, edi) ==
    [eax |-> eax, ebx |-> ebx, ecx |-> ecx, edx |-> edx, esi |-> esi, edi |-> edi]
ZeroRegs == Regs(ZeroCmd, 0, 0, 0, 0, 0)

Trapframe(regs, eip, cs, ds, es, ss, eflags, trapno, err) ==
    [regs |-> regs, eip |-> eip, cs |-> cs, ds |-> ds, es |-> es, ss |-> ss,
     eflags |-> eflags, trapno |-> trapno, err |-> err]

\* eip counts from the INT instruction the process last executed: 0 is that
\* INT itself (resuming there executes it again, with the saved registers),
\* INTLEN the instruction after it; EntryEip is code the parent loaded.
EntryEip == 4
UserTf(regs, eip) ==
    Trapframe(regs, eip, UCODE3, UDATA3, UDATA3, UDATA3, FL_IF, 0, 0)
ZeroSv == [tf |-> Trapframe(ZeroRegs, 0, "0", "0", "0", "0", {}, 0, 0), fx |-> "fx0"]
InitSv == [tf |-> UserTf(ZeroRegs, EntryEip), fx |-> "fx0"]

\* What a caller may hold in its memory at the save-area pointer: a state
\* asking for kernel selectors and privileged flag bits, and an ordinary one.
XKern == [tf |-> Trapframe(ZeroRegs, EntryEip, "KCODE|0", "KDATA|0", "KDATA|0",
                           "KDATA|0", {"IOPL", "CF"}, 0, 0), fx |-> "fxA"]
XUser == [tf |-> Trapframe(ZeroRegs, EntryEip, UCODE3, UDATA3, UDATA3, UDATA3,
                           {"IF", "ZF"}, 0, 0), fx |-> "fxB"]

\* Error codes the hardware reports for a page fault taken in kernel mode
\* (not present / write to a read-only page).
FaultErrs == {0, 3}

\* ------------------------------------------------------------- page maps
\* A page directory, over the user pages: the page mapped (0: none) and its
\* permission bits (the RW field: 0 none, 1 read, 2 write, 3 read+write).
NoPage == [pg |-> 0, perm |-> 0]
EmptyPdir == [n \in UPages |-> NoPage]
RootPdir == [n \in UPages |-> [pg |-> n, perm |-> 3]]
Pte(pd, n) == IF n \in UPages THEN pd[n] ELSE NoPage
InRange(n, va, size) == va <= n * PAGESIZE /\ n * PAGESIZE < va + size

\* pmap_copy: map the pages of [sva, sva+size) of spd at [dva, dva+size) of dpd.
PmapCopy(spd, sva, dpd, dva, size) ==
    [n \in UPages |-> IF InRange(n, dva, size)
                      THEN Pte(spd, n + ((sva - dva) \div PAGESIZE))
                      ELSE dpd[n]]
\* pmap_remove: unmap [va, va+size).
PmapRemove(pd, va, size) ==
    [n \in UPages |-> IF InRange(n, va, size) THEN NoPage ELSE pd[n]]
\* pmap_setperm: set the permission bits of [va, va+size).
PmapSetperm(pd, va, size, rw) ==
    [n \in UPages |-> IF InRange(n, va, size) THEN [pd[n] EXCEPT !.perm = rw] ELSE pd[n]]
\* pmap_merge: three-way merge of [sva, sva+size) of spd, against the baseline
\* rpd, into [dva, dva+size) of dpd.  A page the source did not change keeps
\* the destination's; a page only the source changed takes the source's; a
\* page both changed is a conflict and is unmapped.
PmapMerge(rpd, spd, sva, dpd, dva, size) ==
    [n \in UPages |->
        IF ~InRange(n, dva, size) THEN dpd[n]
        ELSE LET m == n + ((sva - dva) \div PAGESIZE) IN
             IF Pte(spd, m) = Pte(rpd, m) THEN dpd[n]
             ELSE IF dpd[n] = Pte(rpd, m) THEN Pte(spd, m)
             ELSE NoPage]

\* ------------------------------------------------------------------ state
VARIABLES
    pstate,     \* proc.state: "STOP", "READY", "RUN", "WAIT"
    runcpu,     \* proc.runcpu (NULL unless RUN)
    sv,         \* proc.sv: the register save-area (tf and fx)
    pdir,       \* proc.pdir
    rpdir,      \* proc.rpdir
    child,      \* proc.child[]: the populated slots (an absent index is NULL)
    parent,     \* proc.parent
    waitchild,  \* proc.waitchild
    lock,       \* proc.lock: the CPU holding it, or NULL
    nproc,      \* processes proc_alloc has handed out
    cur,        \* cpu.proc: the process running on the CPU, or NULL
    recover,    \* cpu.recover: NULL or "sysrecover"
    pc,         \* where each process is in the kernel ("user": not in it)
    tf,         \* the user trapframe of the process on its CPU
    cp,         \* the handler's local cp
    umem,       \* what the memory of the process holds at its save-area
                \* pointer: what it stored there before INT, then what GET
                \* copied out
    console,    \* the string the running do_cputs handed to cprintf:
                \* <<uva, length>> (<<>>: none)
    panicked,   \* "" or the reason of the panic / failed assertion
    lastput,    \* history: what the last PUT with REGS gave each process since
                \* it was last started (NoPut: nothing)
    nsys        \* syscalls counted so far (only SpecArgs counts them)

\* No PUT with REGS on the process since it was last started.
NoPut == [x |-> ZeroSv, fpu |-> FALSE, any |-> FALSE]

vars == <<pstate, runcpu, sv, pdir, rpdir, child, parent, waitchild, lock,
          nproc, cur, recover, pc, tf, cp, umem, console, panicked, lastput, nsys>>

Init ==
    /\ pstate = [p \in Procs |-> IF p = Root THEN "RUN" ELSE "STOP"]
    /\ runcpu = [p \in Procs |-> IF p = Root THEN 1 ELSE NULL]
    /\ sv = [p \in Procs |-> IF p = ProcNull THEN ZeroSv ELSE InitSv]
    /\ pdir = [p \in Procs |-> IF p = Root THEN RootPdir ELSE EmptyPdir]
    /\ rpdir = [p \in Procs |-> EmptyPdir]
    /\ child = [p \in Procs |-> <<>>]
    /\ parent = [p \in Procs |-> NULL]
    /\ waitchild = [p \in Procs |-> NULL]
    /\ lock = [p \in Procs |-> NULL]
    /\ nproc = 0
    /\ cur = [c \in CPUs |-> IF c = 1 THEN Root ELSE NULL]
    /\ recover = [c \in CPUs |-> NoRecover]
    /\ pc = [p \in Procs |-> "user"]
    /\ tf = [p \in Procs |-> InitSv.tf]
    /\ cp = [p \in Procs |-> NULL]
    /\ umem = [p \in Procs |-> ZeroSv]
    /\ console = <<>>
    /\ panicked = ""
    /\ lastput = [p \in Procs |-> NoPut]
    /\ nsys = 0

\* ------------------------------------------------------- helpers of the code
Child(p, cn) == IF cn \in DOMAIN child[p] THEN child[p][cn] ELSE NULL

\* Mutant of ChildIndex: the index register is used unmasked.
ChildIndexNoMask(edx) == edx

\* edx & 0xff
ChildIndex(edx) == edx % NCHILD

SystrapKeepsTrapno(p, trapno, err) ==
    /\ tf' = [tf EXCEPT ![p].err = err]
    /\ pc' = [pc EXCEPT ![p] = "proc_ret0"]

\* systrap: blame the trap on the INT instruction and reflect it to the parent
\* (proc_ret(utf, 0) is the process's next step).
Systrap(p, trapno, err) ==
    /\ tf' = [tf EXCEPT ![p].trapno = trapno, ![p].err = err]
    /\ pc' = [pc EXCEPT ![p] = "proc_ret0"]

\* checkva's condition for letting the caller go on.
CheckvaOK(uva, size) ==
    ~(uva < VM_USERLO \/ uva >= VM_USERHI \/ size >= Sub32(VM_USERHI, uva))

\* Mutant of PtBad: the end of the region is computed as va + size, in the
\* width of the address type.
PtBadWrapSum(va, size) ==
    \/ PTOFF(va) # 0 \/ PTOFF(size) # 0
    \/ va < VM_USERLO \/ va > VM_USERHI
    \/ (va + size) % AddrSpace > VM_USERHI
\* Mutant of PtBad: the size is not checked for alignment.
PtBadNoSizeAlign(va, size) ==
    \/ PTOFF(va) # 0
    \/ va < VM_USERLO \/ va > VM_USERHI
    \/ size > Sub32(VM_USERHI, va)

\* The region checks of PUT and GET: TRUE when the region is refused.
PtBad(va, size) ==
    \/ PTOFF(va) # 0 \/ PTOFF(size) # 0
    \/ va < VM_USERLO \/ va > VM_USERHI
    \/ size > Sub32(VM_USERHI, va)
PgBad(va, size) ==
    \/ PGOFF(va) # 0 \/ PGOFF(size) # 0
    \/ va < VM_USERLO \/ va > VM_USERHI
    \/ size > Sub32(VM_USERHI, va)

\* Mutant of MustWait: only a running child is waited for.
MustWaitRunOnly(c) == pstate[c] = "RUN"

\* if (cp->state != PROC_STOP): the caller must wait for the child.
MustWait(c) == pstate[c] # "STOP"

\* Mutant of PutCase: the MERGE pattern is taken for COPY.
PutCaseMergeAsCopy(op) ==
    CASE op = "NONE" -> "none"
      [] op \in {"COPY", "MERGE"} -> "copy"
      [] op = "ZERO" -> "zero"
      [] OTHER -> "default"

\* The cases of switch (cmd & SYS_MEMOP) in do_put and in do_get.
PutCase(op) ==
    CASE op = "NONE" -> "none"
      [] op = "COPY" -> "copy"
      [] op = "ZERO" -> "zero"
      [] OTHER -> "default"
GetCase(op) ==
    CASE op = "NONE" -> "none"
      [] op = "COPY" -> "copy"
      [] op = "MERGE" -> "merge"
      [] op = "ZERO" -> "zero"
      [] OTHER -> "default"

\* Mutant of RegLen: the FPU bit is ignored.
RegLenIntegerOnly(cmd) == TFSIZE

\* len of the register transfer
RegLen(cmd) == IF cmd.fpu THEN PSSIZE ELSE TFSIZE

\* Mutant of UcCopyout: every transfer is a copy-in.
UcCopyoutNever(t) == FALSE

\* The arguments the three callers give usercopy.
UcSize(t) == IF t.regs.eax.type = "CPUTS" THEN CPUTS_MAX ELSE RegLen(t.regs.eax)
UcCopyout(t) == t.regs.eax.type = "GET"
UcNext(t) ==
    CASE t.regs.eax.type = "CPUTS" -> "cputs_print"
      [] t.regs.eax.type = "PUT" -> "put_memcpy"
      [] OTHER -> "get_memcpy"

\* memmove / memcpy of len bytes of a procstate: the trapframe comes first,
\* fx after it.
CopyState(dst, src, len) ==
    IF len >= PSSIZE THEN src ELSE [dst EXCEPT !.tf = src.tf]

\* proc_save: the trapframe into the save-area; entry 0 backs eip up to the
\* INT instruction, entry 1 leaves it after it.
ProcSave(s, t, entry) ==
    [s EXCEPT !.tf = IF entry = 0 THEN [t EXCEPT !.eip = t.eip - INTLEN] ELSE t]

\* ---------------------------------------------------------------- actions
Cpu(p) == runcpu[p]
InKernel(p, at) == pstate[p] = "RUN" /\ pc[p] = at /\ panicked = ""

\* The caller leaves the CPU (proc_wait, proc_ret): the CPU is free for the
\* scheduler.
Yield(p, st) ==
    /\ pstate' = [pstate EXCEPT ![p] = st]
    /\ runcpu' = [runcpu EXCEPT ![p] = NULL]
    /\ cur' = [cur EXCEPT ![Cpu(p)] = NULL]

\* syscall(): a process in user mode executes INT, with the registers in.regs
\* and with in.mem in its memory at the save-area pointer; the command word
\* in EAX selects the handler.
Syscall(p, in, count) ==
    /\ InKernel(p, "user")
    /\ nsys' = nsys + count
    /\ tf' = [tf EXCEPT ![p] = [@ EXCEPT !.regs = in.regs, !.eip = INTLEN,
                                         !.trapno = T_SYSCALL, !.err = 0]]
    /\ pc' = [pc EXCEPT ![p] =
                CASE in.regs.eax.type = "CPUTS" -> "usercopy"
                  [] in.regs.eax.type = "PUT" -> "put_lock"
                  [] in.regs.eax.type = "GET" -> "get_lock"
                  [] OTHER -> "proc_ret1"]
    /\ umem' = [umem EXCEPT ![p] = in.mem]
    /\ UNCHANGED <<lastput, pstate, runcpu, sv, pdir, rpdir, child, parent, waitchild,
                   lock, nproc, cur, recover, cp, console, panicked>>

\* trap_return(tf): back to user mode, after the INT instruction.  What the
\* process then computes in its registers is its next syscall's choice.
TrapReturn(p) ==
    /\ InKernel(p, "trap_return")
    /\ pc' = [pc EXCEPT ![p] = "user"]
    /\ tf' = [tf EXCEPT ![p].regs = ZeroRegs]
    /\ cp' = [cp EXCEPT ![p] = NULL]
    /\ console' = <<>>
    /\ UNCHANGED <<lastput, nsys, pstate, runcpu, sv, pdir, rpdir, child, parent, waitchild,
                   lock, nproc, cur, recover, umem, panicked>>

\* usercopy, up to the memmove: checkva, the assertion, the handler installed.
Usercopy(p) ==
    /\ InKernel(p, "usercopy")
    /\ IF ~CheckvaOK(tf[p].regs.ebx, UcSize(tf[p]))
       THEN /\ Systrap(p, T_PGFLT, 0)
            /\ UNCHANGED <<recover, panicked>>
       ELSE IF recover[Cpu(p)] # NoRecover
       THEN /\ panicked' = "assert recover == NULL"
            /\ UNCHANGED <<recover, tf, pc>>
       ELSE /\ recover' = [recover EXCEPT ![Cpu(p)] = "sysrecover"]
            /\ pc' = [pc EXCEPT ![p] = "memmove"]
            /\ UNCHANGED <<tf, panicked>>
    /\ UNCHANGED <<lastput, nsys, pstate, runcpu, sv, pdir, rpdir, child, parent, waitchild,
                   lock, nproc, cur, cp, umem, console>>

\* usercopy's memmove completes and usercopy returns: the handler is removed.
\* Copy-in takes what the caller's memory holds; copy-out stores the child's
\* save-area there.  (do_cputs copies into a local buffer.)
Memmove(p) ==
    /\ InKernel(p, "memmove")
    /\ IF recover[Cpu(p)] # "sysrecover"
       THEN /\ panicked' = "assert recover == sysrecover"
            /\ UNCHANGED <<recover, pc, sv, umem>>
       ELSE /\ recover' = [recover EXCEPT ![Cpu(p)] = NoRecover]
            /\ pc' = [pc EXCEPT ![p] = UcNext(tf[p])]
            /\ panicked' = panicked
            /\ IF tf[p].regs.eax.type = "CPUTS"
               THEN UNCHANGED <<sv, umem>>
               ELSE IF UcCopyout(tf[p])
               THEN /\ umem' = [umem EXCEPT ![p] =
                                   CopyState(@, sv[cp[p]], UcSize(tf[p]))]
                    /\ sv' = sv
               ELSE /\ sv' = [sv EXCEPT ![cp[p]] =
                                 CopyState(@, umem[p], UcSize(tf[p]))]
                    /\ umem' = umem
    /\ UNCHANGED <<lastput, nsys, pstate, runcpu, pdir, rpdir, child, parent, waitchild,
                   lock, nproc, cur, tf, cp, console>>

\* The memmove faults after moving k of its bytes (it copies from the start
\* of the range; the bytes before the faulting page have been moved).  What
\* a PUT has moved into the child's save-area is no complete state.
FaultPoints(t) ==
    IF t.regs.eax.type = "CPUTS" THEN {0} ELSE 0..(UcSize(t) - 1)
MovedBeforeFault(p, k) ==
    IF k = 0
    THEN UNCHANGED <<sv, umem, lastput>>
    ELSE IF UcCopyout(tf[p])
    THEN /\ umem' = [umem EXCEPT ![p] = CopyState(@, sv[cp[p]], k)]
         /\ UNCHANGED <<sv, lastput>>
    ELSE /\ sv' = [sv EXCEPT ![cp[p]] = CopyState(@, umem[p], k)]
         /\ lastput' = [lastput EXCEPT ![cp[p]] = NoPut]
         /\ umem' = umem

SysrecoverReturns(p) ==
    /\ InKernel(p, "memmove")
    /\ recover[Cpu(p)] = "sysrecover"
    /\ recover' = [recover EXCEPT ![Cpu(p)] = NoRecover]
    /\ tf' = [tf EXCEPT ![p].trapno = T_PGFLT, ![p].err = 0]
    /\ pc' = [pc EXCEPT ![p] = UcNext(tf[p])]
    /\ UNCHANGED <<lastput, nsys, pstate, runcpu, sv, pdir, rpdir, child, parent,
                   waitchild, lock, nproc, cur, cp, umem, console, panicked>>

\* Mutant of Sysrecover: the slot is left as it is.
SysrecoverLeavesSlot(p) ==
    /\ InKernel(p, "memmove")
    /\ recover[Cpu(p)] = "sysrecover"
    /\ \E e \in FaultErrs : Systrap(p, T_PGFLT, e)
    /\ \E k \in FaultPoints(tf[p]) : MovedBeforeFault(p, k)
    /\ UNCHANGED <<nsys, pstate, runcpu, pdir, rpdir, child, parent, waitchild,
                   lock, nproc, cur, cp, console, recover, panicked>>

\* A page fault inside the memmove: trap() finds cpu.recover set and calls
\* sysrecover, which clears the slot and reflects the hardware trap.
Sysrecover(p) ==
    /\ InKernel(p, "memmove")
    /\ IF recover[Cpu(p)] # "sysrecover"
       THEN /\ panicked' = "assert recover == sysrecover"
            /\ UNCHANGED <<recover, pc, tf, sv, umem, lastput>>
       ELSE /\ recover' = [recover EXCEPT ![Cpu(p)] = NoRecover]
            /\ \E e \in FaultErrs : Systrap(p, T_PGFLT, e)
            /\ \E k \in FaultPoints(tf[p]) : MovedBeforeFault(p, k)
            /\ panicked' = panicked
    /\ UNCHANGED <<nsys, pstate, runcpu, pdir, rpdir, child, parent, waitchild,
                   lock, nproc, cur, cp, console>>

\* cprintf("%s", buf), after buf[CPUTS_MAX] = 0: the characters before the
\* first NUL of the buffer, of a string of n characters.
Printed(n) == IF n < CPUTS_MAX THEN n ELSE CPUTS_MAX

\* do_cputs after usercopy: terminate the buffer, print it, return.  The
\* string printed ends at the first NUL of the bytes copied.
CputsPrint(p) ==
    /\ InKernel(p, "cputs_print")
    /\ console' = <<tf[p].regs.ebx, Printed(umem[p].len)>>
    /\ pc' = [pc EXCEPT ![p] = "trap_return"]
    /\ UNCHANGED <<lastput, nsys, pstate, runcpu, sv, pdir, rpdir, child, parent, waitchild,
                   lock, nproc, cur, recover, tf, cp, umem, panicked>>

\* proc_wait(p, cp, tf): the caller waits for the child to stop.  Its state is
\* saved at the INT instruction, so that it executes the syscall again when
\* it is woken; its lock is released and its CPU given up.
ProcWait(p, c) ==
    /\ Yield(p, "WAIT")
    /\ waitchild' = [waitchild EXCEPT ![p] = c]
    /\ sv' = [sv EXCEPT ![p] = ProcSave(@, tf[p], 0)]
    /\ tf' = [tf EXCEPT ![p] = ProcSave(sv[p], tf[p], 0).tf]
    /\ lock' = [lock EXCEPT ![p] = NULL]
    /\ pc' = [pc EXCEPT ![p] = "user"]

PutLockSkipped(p) ==
    /\ InKernel(p, "put_lock")
    /\ pc' = [pc EXCEPT ![p] = "put_find"]
    /\ UNCHANGED <<lastput, nsys, pstate, runcpu, sv, pdir, rpdir, child, parent, waitchild,
                   lock, nproc, cur, recover, tf, cp, umem, console, panicked>>

\* do_put: spinlock_acquire(&p->lock)
PutLock(p) ==
    /\ InKernel(p, "put_lock")
    /\ lock[p] = NULL
    /\ lock' = [lock EXCEPT ![p] = Cpu(p)]
    /\ pc' = [pc EXCEPT ![p] = "put_find"]
    /\ UNCHANGED <<lastput, nsys, pstate, runcpu, sv, pdir, rpdir, child, parent, waitchild,
                   nproc, cur, recover, tf, cp, umem, console, panicked>>

\* do_put: find the named child, create it if the slot is empty, and wait
\* for it unless it is stopped.
PutFind(p) ==
    /\ InKernel(p, "put_find")
    /\ LET cn == ChildIndex(tf[p].regs.edx)
           new == Root + nproc + 1
       IN IF Child(p, cn) = NULL /\ nproc >= MaxChildren
          THEN /\ panicked' = "sys_put: no memory for child"
               /\ UNCHANGED <<pstate, runcpu, sv, child, parent, waitchild,
                              lock, nproc, cur, pc, cp, tf>>
          ELSE LET c == IF Child(p, cn) = NULL THEN new ELSE Child(p, cn) IN
               /\ panicked' = panicked
               /\ cp' = [cp EXCEPT ![p] = c]
               /\ IF Child(p, cn) = NULL
                  THEN /\ child' = [child EXCEPT ![p] =
                                      [i \in DOMAIN child[p] \cup {cn} |->
                                          IF i = cn THEN new ELSE child[p][i]]]
                       /\ parent' = [parent EXCEPT ![new] = p]
                       /\ nproc' = nproc + 1
                  ELSE UNCHANGED <<child, parent, nproc>>
               /\ pc' = [pc EXCEPT ![p] = IF MustWait(c) THEN "put_wait"
                                           ELSE "put_unlock"]
               /\ UNCHANGED <<pstate, runcpu, cur, waitchild, sv, lock, tf>>
    /\ UNCHANGED <<lastput, nsys, pdir, rpdir, recover, umem, console>>

\* do_put: proc_wait(p, cp, tf), for the child that was found not stopped.
PutWait(p) ==
    /\ InKernel(p, "put_wait")
    /\ ProcWait(p, cp[p])
    /\ cp' = [cp EXCEPT ![p] = NULL]
    /\ UNCHANGED <<lastput, nsys, pdir, rpdir, child, parent, nproc, recover, umem,
                   console, panicked>>

\* Mutant of PutUnlock: the lock is still held when the handler goes on.
PutUnlockStartsChild(p) ==
    /\ InKernel(p, "put_unlock")
    /\ lock' = [lock EXCEPT ![p] = NULL]
    /\ pstate' = IF tf[p].regs.eax.start
                 THEN [pstate EXCEPT ![cp[p]] = "READY"]
                 ELSE pstate
    /\ pc' = [pc EXCEPT ![p] = IF tf[p].regs.eax.regs THEN "usercopy" ELSE "put_memop"]
    /\ UNCHANGED <<lastput, nsys, runcpu, sv, pdir, rpdir, child, parent, waitchild,
                   nproc, cur, recover, tf, cp, umem, console, panicked>>

PutUnlockKeepsLock(p) ==
    /\ InKernel(p, "put_unlock")
    /\ pc' = [pc EXCEPT ![p] = IF tf[p].regs.eax.regs THEN "usercopy" ELSE "put_memop"]
    /\ UNCHANGED <<lastput, nsys, pstate, runcpu, sv, pdir, rpdir, child, parent, waitchild,
                   lock, nproc, cur, recover, tf, cp, umem, console, panicked>>

\* do_put: spinlock_release(&p->lock), then on to the register transfer.
PutUnlock(p) ==
    /\ InKernel(p, "put_unlock")
    /\ lock' = [lock EXCEPT ![p] = NULL]
    /\ pc' = [pc EXCEPT ![p] = IF tf[p].regs.eax.regs THEN "usercopy" ELSE "put_memop"]
    /\ UNCHANGED <<lastput, nsys, pstate, runcpu, sv, pdir, rpdir, child, parent, waitchild,
                   nproc, cur, recover, tf, cp, umem, console, panicked>>

\* do_put after usercopy: the memcpy from the user pointer, then the child is
\* made to use user-mode segments and eflags.
PutMemcpy(p) ==
    /\ InKernel(p, "put_memcpy")
    /\ LET copied == CopyState(sv[cp[p]], umem[p], RegLen(tf[p].regs.eax))
       IN sv' = [sv EXCEPT ![cp[p]] =
                    [copied EXCEPT !.tf =
                        [@ EXCEPT !.ds = UDATA3, !.es = UDATA3, !.cs = UCODE3,
                                  !.ss = UDATA3,
                                  !.eflags = (@ \cap FL_USER) \cup FL_IF]]]
    /\ pc' = [pc EXCEPT ![p] = "put_memop"]
    /\ lastput' = [lastput EXCEPT ![cp[p]] =
                      [x |-> umem[p], fpu |-> tf[p].regs.eax.fpu, any |-> TRUE]]
    /\ UNCHANGED <<nsys, pstate, runcpu, pdir, rpdir, child, parent, waitchild, lock,
                   nproc, cur, recover, tf, cp, umem, console, panicked>>

\* do_put: switch (cmd & SYS_MEMOP)
PutMemop(p) ==
    /\ InKernel(p, "put_memop")
    /\ LET sva == tf[p].regs.esi
           dva == tf[p].regs.edi
           size == tf[p].regs.ecx
           op == PutCase(tf[p].regs.eax.memop)
       IN CASE op = "none" ->
                 /\ pc' = [pc EXCEPT ![p] = "put_perm"]
                 /\ UNCHANGED <<tf, pdir>>
            [] op = "copy" ->
                 IF PtBad(sva, size) \/ PtBad(dva, size)
                 THEN Systrap(p, T_GPFLT, 0) /\ pdir' = pdir
                 ELSE /\ pdir' = [pdir EXCEPT ![cp[p]] =
                                     PmapCopy(pdir[p], sva, @, dva, size)]
                      /\ pc' = [pc EXCEPT ![p] = "put_perm"]
                      /\ tf' = tf
            [] op = "zero" ->
                 IF PtBad(dva, size)
                 THEN Systrap(p, T_GPFLT, 0) /\ pdir' = pdir
                 ELSE /\ pdir' = [pdir EXCEPT ![cp[p]] = PmapRemove(@, dva, size)]
                      /\ pc' = [pc EXCEPT ![p] = "put_perm"]
                      /\ tf' = tf
            [] OTHER -> Systrap(p, T_GPFLT, 0) /\ pdir' = pdir
    /\ UNCHANGED <<lastput, nsys, pstate, runcpu, sv, rpdir, child, parent, waitchild, lock,
                   nproc, cur, recover, cp, umem, console, panicked>>

\* do_put: if (cmd & SYS_PERM)
PutPerm(p) ==
    /\ InKernel(p, "put_perm")
    /\ LET dva == tf[p].regs.edi
           size == tf[p].regs.ecx
       IN IF ~tf[p].regs.eax.perm
          THEN /\ pc' = [pc EXCEPT ![p] = "put_snap"]
               /\ UNCHANGED <<tf, pdir, panicked>>
          ELSE IF PgBad(dva, size)
          THEN Systrap(p, T_GPFLT, 0) /\ UNCHANGED <<pdir, panicked>>
          ELSE \/ /\ pdir' = [pdir EXCEPT ![cp[p]] =
                                 PmapSetperm(@, dva, size, tf[p].regs.eax.rw)]
                  /\ pc' = [pc EXCEPT ![p] = "put_snap"]
                  /\ UNCHANGED <<tf, panicked>>
               \/ /\ panicked' = "pmap_put: no memory to set permissions"
                  /\ UNCHANGED <<tf, pdir, pc>>
    /\ UNCHANGED <<lastput, nsys, pstate, runcpu, sv, rpdir, child, parent, waitchild, lock,
                   nproc, cur, recover, cp, umem, console>>

PutSnapAlways(p) ==
    /\ InKernel(p, "put_snap")
    /\ rpdir' = [rpdir EXCEPT ![cp[p]] =
                    PmapCopy(pdir[cp[p]], VM_USERLO, @, VM_USERLO,
                             VM_USERHI - VM_USERLO)]
    /\ pc' = [pc EXCEPT ![p] = "put_start"]
    /\ UNCHANGED <<lastput, nsys, pstate, runcpu, sv, pdir, child, parent, waitchild, lock,
                   nproc, cur, recover, tf, cp, umem, console, panicked>>

\* Mutant of PutSnap: the snapshot is taken of the caller's pdir.
PutSnapFromCaller(p) ==
    /\ InKernel(p, "put_snap")
    /\ rpdir' = IF tf[p].regs.eax.snap
                THEN [rpdir EXCEPT ![cp[p]] =
                         PmapCopy(pdir[p], VM_USERLO, @, VM_USERLO,
                                  VM_USERHI - VM_USERLO)]
                ELSE rpdir
    /\ pc' = [pc EXCEPT ![p] = "put_start"]
    /\ UNCHANGED <<lastput, nsys, pstate, runcpu, sv, pdir, child, parent, waitchild, lock,
                   nproc, cur, recover, tf, cp, umem, console, panicked>>

\* do_put: if (cmd & SYS_SNAP), snapshot the child's pdir into its rpdir.
PutSnap(p) ==
    /\ InKernel(p, "put_snap")
    /\ rpdir' = IF tf[p].regs.eax.snap
                THEN [rpdir EXCEPT ![cp[p]] =
                         PmapCopy(pdir[cp[p]], VM_USERLO, @, VM_USERLO,
                                  VM_USERHI - VM_USERLO)]
                ELSE rpdir
    /\ pc' = [pc EXCEPT ![p] = "put_start"]
    /\ UNCHANGED <<lastput, nsys, pstate, runcpu, sv, pdir, child, parent, waitchild, lock,
                   nproc, cur, recover, tf, cp, umem, console, panicked>>

\* do_put: if (cmd & SYS_START) proc_ready(cp); then trap_return.
PutStart(p) ==
    /\ InKernel(p, "put_start")
    /\ pstate' = IF tf[p].regs.eax.start
                 THEN [pstate EXCEPT ![cp[p]] = "READY"]
                 ELSE pstate
    /\ lastput' = IF tf[p].regs.eax.start
                  THEN [lastput EXCEPT ![cp[p]] = NoPut]
                  ELSE lastput
    /\ pc' = [pc EXCEPT ![p] = "trap_return"]
    /\ UNCHANGED <<nsys, runcpu, sv, pdir, rpdir, child, parent, waitchild, lock,
                   nproc, cur, recover, tf, cp, umem, console, panicked>>

\* do_get: spinlock_acquire(&p->lock)
GetLock(p) ==
    /\ InKernel(p, "get_lock")
    /\ lock[p] = NULL
    /\ lock' = [lock EXCEPT ![p] = Cpu(p)]
    /\ pc' = [pc EXCEPT ![p] = "get_find"]
    /\ UNCHANGED <<lastput, nsys, pstate, runcpu, sv, pdir, rpdir, child, parent, waitchild,
                   nproc, cur, recover, tf, cp, umem, console, panicked>>

\* do_get: find the named child, the null process if the slot is empty, and
\* wait for it unless it is stopped.
GetFind(p) ==
    /\ InKernel(p, "get_find")
    /\ LET cn == ChildIndex(tf[p].regs.edx)
           c == IF Child(p, cn) = NULL THEN ProcNull ELSE Child(p, cn)
       IN /\ cp' = [cp EXCEPT ![p] = c]
          /\ pc' = [pc EXCEPT ![p] = IF MustWait(c) THEN "get_wait" ELSE "get_unlock"]
          /\ UNCHANGED <<pstate, runcpu, cur, waitchild, sv, lock, tf>>
    /\ UNCHANGED <<lastput, nsys, pdir, rpdir, child, parent, nproc, recover, umem,
                   console, panicked>>

\* do_get: proc_wait(p, cp, tf), for the child that was found not stopped.
GetWait(p) ==
    /\ InKernel(p, "get_wait")
    /\ ProcWait(p, cp[p])
    /\ cp' = [cp EXCEPT ![p] = NULL]
    /\ UNCHANGED <<lastput, nsys, pdir, rpdir, child, parent, nproc, recover, umem,
                   console, panicked>>

\* do_get: spinlock_release(&p->lock), then on to the register transfer.
GetUnlock(p) ==
    /\ InKernel(p, "get_unlock")
    /\ lock' = [lock EXCEPT ![p] = NULL]
    /\ pc' = [pc EXCEPT ![p] = IF tf[p].regs.eax.regs THEN "usercopy" ELSE "get_memop"]
    /\ UNCHANGED <<lastput, nsys, pstate, runcpu, sv, pdir, rpdir, child, parent, waitchild,
                   nproc, cur, recover, tf, cp, umem, console, panicked>>

\* do_get after usercopy: the memcpy to the user pointer.
GetMemcpy(p) ==
    /\ InKernel(p, "get_memcpy")
    /\ umem' = [umem EXCEPT ![p] = CopyState(@, sv[cp[p]], RegLen(tf[p].regs.eax))]
    /\ pc' = [pc EXCEPT ![p] = "get_memop"]
    /\ UNCHANGED <<lastput, nsys, pstate, runcpu, sv, pdir, rpdir, child, parent, waitchild,
                   lock, nproc, cur, recover, tf, cp, console, panicked>>

\* do_get: switch (cmd & SYS_MEMOP)
GetMemop(p) ==
    /\ InKernel(p, "get_memop")
    /\ LET sva == tf[p].regs.esi
           dva == tf[p].regs.edi
           size == tf[p].regs.ecx
           op == GetCase(tf[p].regs.eax.memop)
       IN CASE op = "none" ->
                 /\ pc' = [pc EXCEPT ![p] = "get_perm"]
                 /\ UNCHANGED <<tf, pdir>>
            [] op \in {"copy", "merge"} ->
                 IF PtBad(sva, size) \/ PtBad(dva, size)
                 THEN Systrap(p, T_GPFLT, 0) /\ pdir' = pdir
                 ELSE /\ pdir' = [pdir EXCEPT ![p] =
                                     IF op = "copy"
                                     THEN PmapCopy(pdir[cp[p]], sva, @, dva, size)
                                     ELSE PmapMerge(rpdir[cp[p]], pdir[cp[p]], sva,
                                                    @, dva, size)]
                      /\ pc' = [pc EXCEPT ![p] = "get_perm"]
                      /\ tf' = tf
            [] op = "zero" ->
                 IF PtBad(dva, size)
                 THEN Systrap(p, T_GPFLT, 0) /\ pdir' = pdir
                 ELSE /\ pdir' = [pdir EXCEPT ![p] = PmapRemove(@, dva, size)]
                      /\ pc' = [pc EXCEPT ![p] = "get_perm"]
                      /\ tf' = tf
            [] OTHER -> Systrap(p, T_GPFLT, 0) /\ pdir' = pdir
    /\ UNCHANGED <<lastput, nsys, pstate, runcpu, sv, rpdir, child, parent, waitchild, lock,
                   nproc, cur, recover, cp, umem, console, panicked>>

\* do_get: if (cmd & SYS_PERM)
GetPerm(p) ==
    /\ InKernel(p, "get_perm")
    /\ LET dva == tf[p].regs.edi
           size == tf[p].regs.ecx
       IN IF ~tf[p].regs.eax.perm
          THEN /\ pc' = [pc EXCEPT ![p] = "get_snap"]
               /\ UNCHANGED <<tf, pdir, panicked>>
          ELSE IF PgBad(dva, size)
          THEN Systrap(p, T_GPFLT, 0) /\ UNCHANGED <<pdir, panicked>>
          ELSE \/ /\ pdir' = [pdir EXCEPT ![p] =
                                 PmapSetperm(@, dva, size, tf[p].regs.eax.rw)]
                  /\ pc' = [pc EXCEPT ![p] = "get_snap"]
                  /\ UNCHANGED <<tf, panicked>>
               \/ /\ panicked' = "pmap_get: no memory to set permissions"
                  /\ UNCHANGED <<tf, pdir, pc>>
    /\ UNCHANGED <<lastput, nsys, pstate, runcpu, sv, rpdir, child, parent, waitchild, lock,
                   nproc, cur, recover, cp, umem, console>>

\* Mutant of GetSnap: the SNAP bit is ignored.
GetSnapIgnored(p) ==
    /\ InKernel(p, "get_snap")
    /\ pc' = [pc EXCEPT ![p] = "trap_return"]
    /\ UNCHANGED <<lastput, nsys, pstate, runcpu, sv, pdir, rpdir, child, parent, waitchild,
                   lock, nproc, cur, recover, cp, umem, console, panicked, tf>>

\* do_get: if (cmd & SYS_SNAP) systrap(tf, T_GPFLT, 0); then trap_return.
GetSnap(p) ==
    /\ InKernel(p, "get_snap")
    /\ IF tf[p].regs.eax.snap
       THEN Systrap(p, T_GPFLT, 0)
       ELSE /\ pc' = [pc EXCEPT ![p] = "trap_return"]
            /\ tf' = tf
    /\ UNCHANGED <<lastput, nsys, pstate, runcpu, sv, pdir, rpdir, child, parent, waitchild,
                   lock, nproc, cur, recover, cp, umem, console, panicked>>

\* proc_ret(tf, entry), reached from do_ret (entry 1) and from systrap (entry
\* 0): under the parent's lock the caller becomes STOP with its state saved,
\* the parent is woken if it waits for the caller, and the CPU is given up.
\* The root process has no parent: it just stops.
ProcRet(p) ==
    /\ pstate[p] = "RUN" /\ pc[p] \in {"proc_ret0", "proc_ret1"} /\ panicked = ""
    /\ parent[p] # NULL => lock[parent[p]] = NULL
    /\ IF parent[p] # NULL /\ pstate[parent[p]] = "WAIT" /\ waitchild[parent[p]] = p
       THEN /\ pstate' = [pstate EXCEPT ![p] = "STOP", ![parent[p]] = "READY"]
            /\ waitchild' = [waitchild EXCEPT ![parent[p]] = NULL]
       ELSE /\ pstate' = [pstate EXCEPT ![p] = "STOP"]
            /\ waitchild' = waitchild
    /\ runcpu' = [runcpu EXCEPT ![p] = NULL]
    /\ cur' = [cur EXCEPT ![Cpu(p)] = NULL]
    /\ LET saved == ProcSave(sv[p], tf[p], IF pc[p] = "proc_ret1" THEN 1 ELSE 0)
       IN /\ sv' = [sv EXCEPT ![p] = saved]
          /\ tf' = [tf EXCEPT ![p] = saved.tf]
    /\ pc' = [pc EXCEPT ![p] = "user"]
    /\ cp' = [cp EXCEPT ![p] = NULL]
    /\ UNCHANGED <<lastput, nsys, pdir, rpdir, child, parent, lock, nproc, recover, umem,
                   console, panicked>>

\* The scheduler: an idle CPU runs a ready process from its saved state.
ProcSched(c, p) ==
    /\ panicked = ""
    /\ cur[c] = NULL
    /\ pstate[p] = "READY"
    /\ pstate' = [pstate EXCEPT ![p] = "RUN"]
    /\ runcpu' = [runcpu EXCEPT ![p] = c]
    /\ cur' = [cur EXCEPT ![c] = p]
    /\ tf' = [tf EXCEPT ![p] = sv[p].tf]
    /\ UNCHANGED <<lastput, nsys, sv, pdir, rpdir, child, parent, waitchild, lock, nproc,
                   recover, pc, cp, umem, console, panicked>>

\* ------------------------------------------------------------- the inputs
\* What a process sets up before INT: its registers and, for the register
\* transfers, the contents of its memory at the save-area pointer.
NoOp(type) == Cmd(type, FALSE, FALSE, "NONE", FALSE, 0, FALSE, FALSE)
BadPtr == 14            \* BadPtr + size wraps around the address space
In(regs, mem) == [regs |-> regs, mem |-> mem]
\* The caller's memory at the pointer of a CPUTS: a string of n characters
\* before its first NUL (n > CPUTS_MAX: no NUL within the bytes CPUTS reads).
Str(n) == [len |-> n]
DoRet == In(Regs(NoOp("RET"), 0, 0, 0, 0, 0), ZeroSv)

\* Inputs of Spec: the syscalls of a parent and of its children as they
\* interleave on the CPUs.  Child indices take two slots and an alias of the
\* first above bit 7; pointers a good and a bad value.
RootInputs ==
    {In(Regs(NoOp("CPUTS"), VM_USERLO, 0, 0, 0, 0), Str(1)),
     In(Regs(NoOp("CPUTS"), BadPtr, 0, 0, 0, 0), Str(1)),
     DoRet,
     In(Regs(Cmd("PUT", TRUE, FALSE, "NONE", FALSE, 0, FALSE, FALSE),
             VM_USERLO, 0, 0, 0, 0), XKern),
     In(Regs(Cmd("PUT", TRUE, TRUE, "NONE", FALSE, 0, FALSE, TRUE),
             VM_USERLO, 0, NCHILD, 0, 0), XKern),
     In(Regs(Cmd("PUT", TRUE, FALSE, "NONE", FALSE, 0, FALSE, TRUE),
             BadPtr, 0, 0, 0, 0), XKern),
     In(Regs(Cmd("PUT", FALSE, FALSE, "NONE", FALSE, 0, FALSE, TRUE),
             0, 0, 1, 0, 0), ZeroSv),
     In(Regs(Cmd("PUT", FALSE, FALSE, "COPY", TRUE, 1, TRUE, FALSE),
             0, PTSIZE, 0, VM_USERLO, VM_USERLO + PTSIZE), ZeroSv),
     In(Regs(Cmd("GET", TRUE, FALSE, "NONE", FALSE, 0, FALSE, FALSE),
             VM_USERLO, 0, 0, 0, 0), ZeroSv),
     In(Regs(Cmd("GET", TRUE, TRUE, "NONE", FALSE, 0, TRUE, FALSE),
             VM_USERLO, 0, 1, 0, 0), XUser)}
ChildInputs ==
    {DoRet,
     In(Regs(NoOp("CPUTS"), BadPtr, 0, 0, 0, 0), Str(1)),
     In(Regs(Cmd("PUT", FALSE, FALSE, "NONE", FALSE, 0, FALSE, TRUE),
             0, 0, 0, 0, 0), ZeroSv)}

\* Inputs of SpecArgs: a syscall that sets a child up, then the syscalls of
\* one process over all pointers, regions and sizes, in families by kind.
FullRange == VM_USERHI - VM_USERLO
SetupInputs ==
    {In(Regs(Cmd("PUT", TRUE, TRUE, "COPY", TRUE, 3, TRUE, FALSE),
             VM_USERLO, FullRange, 0, VM_USERLO, VM_USERLO), XKern),
     In(Regs(Cmd("PUT", FALSE, FALSE, "NONE", FALSE, 0, FALSE, TRUE),
             0, 0, 0, 0, 0), ZeroSv)}
ArgInputs ==
    <<{In(Regs(NoOp("CPUTS"), b, 0, 0, 0, 0), Str(n)) :
          b \in Addr, n \in 0..(CPUTS_MAX + 1)},
      {In(Regs(Cmd(t, TRUE, f, "NONE", FALSE, 0, FALSE, FALSE), b, 0, x, 0, 0),
               IF t = "PUT" THEN XKern ELSE ZeroSv) :
              t \in {"PUT", "GET"}, f \in BOOLEAN, b \in Addr, x \in {0, 1}},
      {In(Regs(Cmd(t, FALSE, FALSE, m, FALSE, 0, t = "PUT", FALSE), 0, sz, 0, s, d),
               ZeroSv) :
              t \in {"PUT", "GET"}, m \in {"COPY", "ZERO", "MERGE"},
              sz \in Addr, s \in Addr, d \in Addr},
      {In(Regs(Cmd(t, FALSE, FALSE, "NONE", TRUE, 1, sn, st), 0, sz, 0, 0, d),
               ZeroSv) :
              t \in {"PUT", "GET"}, sn \in BOOLEAN, st \in BOOLEAN,
              sz \in Addr, d \in Addr},
      {In(Regs(Cmd("PUT", TRUE, FALSE, m, TRUE, 1, TRUE, TRUE),
                    b, PTSIZE, NCHILD, VM_USERLO, VM_USERLO + PTSIZE), XUser) :
              m \in MemOps, b \in {VM_USERLO, BadPtr}},
      {In(Regs(Cmd("PUT", TRUE, FALSE, "COPY", FALSE, 0, FALSE, TRUE),
                    VM_USERLO, PTSIZE, 0, VM_USERLO, VM_USERLO + PTSIZE), XUser)}>>

\* A process resumed at its INT instruction executes it again, with the
\* registers it was saved with and its memory as it was.
InputsOf(p, rootin, childin) ==
    IF tf[p].eip = 0 THEN {In(tf[p].regs, umem[p])}
    ELSE IF p = Root THEN rootin ELSE childin

\* ------------------------------------------------------- the specification
Step(p) ==
    \/ TrapReturn(p)
    \/ Usercopy(p)
    \/ Memmove(p)
    \/ Sysrecover(p)
    \/ CputsPrint(p)
    \/ PutLock(p)
    \/ PutFind(p)
    \/ PutWait(p)
    \/ PutUnlock(p)
    \/ PutMemcpy(p)
    \/ PutMemop(p)
    \/ PutPerm(p)
    \/ PutSnap(p)
    \/ PutStart(p)
    \/ GetLock(p)
    \/ GetFind(p)
    \/ GetWait(p)
    \/ GetUnlock(p)
    \/ GetMemcpy(p)
    \/ GetMemop(p)
    \/ GetPerm(p)
    \/ GetSnap(p)
    \/ ProcRet(p)

\* Processes on NCPU CPUs: a parent and its children issue syscalls, the
\* handlers interleave step by step, the scheduler runs what is ready.
Next ==
    \/ \E p \in RealProcs : \E in \in InputsOf(p, RootInputs, ChildInputs) :
          Syscall(p, in, 0)
    \/ \E p \in RealProcs : Step(p)
    \/ \E c \in CPUs, p \in RealProcs : ProcSched(c, p)

Spec == Init /\ [][Next]_vars

\* One process alone: the root process sets a child up with one syscall and
\* then issues one syscall with any arguments.
MaxSyscalls == 2
NextArgs ==
    \/ /\ nsys < MaxSyscalls
       /\ \E i \in DOMAIN ArgInputs :
             \E in \in InputsOf(Root, IF nsys = 0 THEN SetupInputs
                                     ELSE ArgInputs[i], {}) :
                Syscall(Root, in, 1)
    \/ Step(Root)

SpecArgs == Init /\ [][NextArgs]_vars

\* Three generations: the root starts a child and can give it a new state;
\* the child gives its own child a state whose transfer may fault, and starts
\* it.
TreeRootInputs ==
    {In(Regs(NoOp("CPUTS"), VM_USERLO, 0, 0, 0, 0), Str(1)),
     In(Regs(Cmd("PUT", FALSE, FALSE, "NONE", FALSE, 0, FALSE, TRUE),
             0, 0, 0, 0, 0), ZeroSv),
     In(Regs(Cmd("PUT", TRUE, FALSE, "NONE", FALSE, 0, FALSE, TRUE),
             VM_USERLO, 0, 0, 0, 0), XUser),
     In(Regs(Cmd("GET", TRUE, TRUE, "NONE", FALSE, 0, FALSE, FALSE),
             VM_USERLO, 0, 0, 0, 0), ZeroSv)}
TreeChildInputs ==
    {DoRet,
     In(Regs(Cmd("PUT", TRUE, TRUE, "NONE", FALSE, 0, FALSE, FALSE),
             VM_USERLO, 0, 0, 0, 0), XKern),
     In(Regs(Cmd("PUT", FALSE, FALSE, "NONE", FALSE, 0, FALSE, TRUE),
             0, 0, 0, 0, 0), ZeroSv)}
NextTree ==
    \/ \E p \in RealProcs : \E in \in InputsOf(p, TreeRootInputs, TreeChildInputs) :
          Syscall(p, in, 0)
    \/ \E p \in RealProcs : Step(p)
    \/ \E c \in CPUs, p \in RealProcs : ProcSched(c, p)
SpecTree == Init /\ [][NextTree]_vars

\* A parent and one child, each with a CPU to run on, under fair scheduling:
\* a handler that can take its next step takes it (the kernel runs with
\* interrupts off and no handler loops), a process resumed at its INT
\* instruction executes it, a ready process is given an idle CPU, and a
\* process spinning on its parent's lock gets it if the lock is free again
\* and again.
LiveRootInputs ==
    {In(Regs(NoOp("CPUTS"), VM_USERLO, 0, 0, 0, 0), Str(1)),
     In(Regs(Cmd("PUT", FALSE, FALSE, "NONE", FALSE, 0, FALSE, TRUE), 0, 0, 0, 0, 0),
        ZeroSv),
     In(Regs(Cmd("PUT", TRUE, FALSE, "NONE", FALSE, 0, FALSE, FALSE),
             VM_USERLO, 0, 0, 0, 0), XUser),
     In(Regs(Cmd("GET", TRUE, TRUE, "NONE", FALSE, 0, FALSE, FALSE),
             VM_USERLO, 0, 0, 0, 0), ZeroSv),
     In(Regs(Cmd("GET", FALSE, FALSE, "NONE", FALSE, 0, TRUE, FALSE), 0, 0, 0, 0, 0),
        ZeroSv)}
LiveChildInputs ==
    {DoRet,
     In(Regs(NoOp("CPUTS"), VM_USERLO, 0, 0, 0, 0), Str(1)),
     In(Regs(NoOp("CPUTS"), BadPtr, 0, 0, 0, 0), Str(1))}
Reexec(p) ==
    /\ tf[p].eip = 0
    /\ \E in \in InputsOf(p, LiveRootInputs, LiveChildInputs) : Syscall(p, in, 0)
NextLive ==
    \/ \E p \in RealProcs : \E in \in InputsOf(p, LiveRootInputs, LiveChildInputs) :
          Syscall(p, in, 0)
    \/ \E p \in RealProcs : Step(p)
    \/ \E c \in CPUs, p \in RealProcs : ProcSched(c, p)
Fairness ==
    \A p \in RealProcs :
        /\ WF_vars(Step(p))
        /\ SF_vars(ProcRet(p))
        /\ WF_vars(Reexec(p))
        /\ WF_vars(\E c \in CPUs : ProcSched(c, p))
SpecLive == Init /\ [][NextLive]_vars /\ Fairness

\* -------------------------------------------------------------- properties
Running(p) == pstate[p] = "RUN" /\ panicked = ""
Type(p) == tf[p].regs.eax.type
\* The positions of a handler from the release of the lock to its last step
\* on the child.
PutWindow == {"put_unlock", "usercopy", "memmove", "put_memcpy", "put_memop",
              "put_perm", "put_snap", "put_start"}
GetWindow == {"get_unlock", "usercopy", "memmove", "get_memcpy", "get_memop",
              "get_perm", "get_snap"}
InWindow(p) ==
    /\ Running(p)
    /\ \/ Type(p) = "PUT" /\ pc[p] \in PutWindow
       \/ Type(p) = "GET" /\ pc[p] \in GetWindow

\* C1: whenever a handler (CPUTS, PUT, GET) is about to enter usercopy, is
\* inside it, is at the memcpy that follows it, or is about to reflect a trap
\* to the parent, the calling process's lock is not held by its CPU.
C1_NoLockAcrossUsercopy ==
    \A p \in RealProcs :
        (Running(p) /\ pc[p] \in {"usercopy", "memmove", "put_memcpy",
                                  "get_memcpy", "proc_ret0"})
            => lock[p] # Cpu(p)
\* A PUT that took its lock, resolved a child created earlier and is now at
\* usercopy, while that lock is free.
C1_Witness ==
    \E p \in RealProcs :
        /\ Running(p) /\ pc[p] = "usercopy" /\ Type(p) = "PUT"
        /\ cp[p] # NULL /\ sv[cp[p]] # InitSv /\ lock[p] = NULL

\* C2: the recovery slot of a CPU is set only while the process running on
\* that CPU is inside usercopy's memmove; it is empty at usercopy's entry,
\* after its normal return, after checkva's rejection and after sysrecover;
\* neither of usercopy's assertions on the slot ever fails.
C2_RecoverSlotEmptyOutsideUsercopy ==
    /\ \A c \in CPUs :
          recover[c] # NoRecover =>
              /\ cur[c] # NULL
              /\ pc[cur[c]] = "memmove"
              /\ Cpu(cur[c]) = c
    /\ panicked \notin {"assert recover == NULL", "assert recover == sysrecover"}
\* A process whose memmove faulted (error code 3 comes from the hardware
\* only) is about to reflect the trap, and the slot of its CPU is empty.
C2_Witness ==
    \E p \in RealProcs :
        /\ Running(p) /\ pc[p] = "proc_ret0"
        /\ tf[p].trapno = T_PGFLT /\ tf[p].err = 3
        /\ recover[Cpu(p)] = NoRecover

\* C3: from the release of the lock to the handler's last step on the child,
\* the child the handler resolved is STOP; and a step of a process changes
\* the save-area, pdir or rpdir of a child of that process, or makes it READY,
\* only when that child is STOP and is the child the handler resolved.
C3_ChildStopInWindow ==
    \A p \in RealProcs :
        InWindow(p) => (cp[p] # NULL /\ pstate[cp[p]] = "STOP")
C3_StepOnChild ==
    \A p \in RealProcs, c \in Procs :
        (/\ parent[c] = p
         /\ pc'[p] # pc[p]
         /\ \/ sv'[c] # sv[c]
            \/ pdir'[c] # pdir[c]
            \/ rpdir'[c] # rpdir[c]
            \/ (pstate'[c] = "READY" /\ pstate[c] # "READY"))
        => (pstate[c] = "STOP" /\ cp[p] = c /\ InWindow(p))
C3_ChildTouchedOnlyWhenStopped ==
    [](C3_ChildStopInWindow) /\ [][C3_StepOnChild]_vars
\* A PUT is about to write the save-area of a child that ran and stopped at
\* a system call, while another process is running.
C3_Witness ==
    \E p \in RealProcs :
        /\ Running(p) /\ pc[p] = "memmove" /\ Type(p) = "PUT" /\ cp[p] # NULL
        /\ pstate[cp[p]] = "STOP"
        /\ sv[cp[p]].tf.trapno = T_SYSCALL
        /\ \E q \in RealProcs : q # p /\ pstate[q] = "RUN"

\* The registers of the call p is in.
Memop(p) == tf[p].regs.eax.memop
Sva(p) == tf[p].regs.esi
Dva(p) == tf[p].regs.edi
Size(p) == tf[p].regs.ecx
Uva(p) == tf[p].regs.ebx
\* p's handler is at position at and takes a step.
At(p, at) == Running(p) /\ pc[p] = at /\ pc'[p] # pc[p]
\* The step reflects the trap to the parent and moves nothing.
Reflects(p, trapno) ==
    /\ pc'[p] = "proc_ret0"
    /\ tf'[p].trapno = trapno /\ tf'[p].err = 0
    /\ sv' = sv /\ umem' = umem /\ pdir' = pdir /\ rpdir' = rpdir

\* C4: usercopy accepts (uva, size) exactly when USERLO <= uva and
\* uva + size <= USERHI: the step at usercopy goes on to the copy for every
\* such range, and for every other one it reflects T_PGFLT with err 0 and
\* moves no byte.
C4_Step ==
    \A p \in RealProcs :
        At(p, "usercopy") =>
            IF VM_USERLO <= Uva(p) /\ Uva(p) + UcSize(tf[p]) <= VM_USERHI
            THEN pc'[p] = "memmove"
            ELSE Reflects(p, T_PGFLT)
C4_AcceptsExactlyUserRanges == [][C4_Step]_vars

\* C5: a range whose end addr + size does not fit the address type is refused
\* wherever a range is validated (checkva; the source and destination of COPY
\* and MERGE, the destination of ZERO, the region of PERM, in PUT and in GET):
\* the step reflects a trap and no save-area, user memory, pdir or rpdir
\* changes.
Wraps(va, size) == va + size >= AddrSpace
C5_Step ==
    \A p \in RealProcs :
        /\ (At(p, "usercopy") /\ Wraps(Uva(p), UcSize(tf[p])))
              => Reflects(p, T_PGFLT)
        /\ (/\ At(p, "put_memop") \/ At(p, "get_memop")
            /\ \/ Memop(p) \in {"COPY", "MERGE"} /\ Wraps(Sva(p), Size(p))
               \/ Memop(p) \in {"COPY", "MERGE", "ZERO"} /\ Wraps(Dva(p), Size(p)))
              => Reflects(p, T_GPFLT)
        /\ (/\ At(p, "put_perm") \/ At(p, "get_perm")
            /\ tf[p].regs.eax.perm /\ Wraps(Dva(p), Size(p)))
              => Reflects(p, T_GPFLT)
C5_WrappingRangesRefused == [][C5_Step]_vars
\* A COPY was refused whose regions are aligned and start in user space, its
\* source fits, and the end of its destination wraps to 0.
C5_Witness ==
    \E p \in RealProcs :
        /\ Running(p) /\ pc[p] = "proc_ret0" /\ tf[p].trapno = T_GPFLT
        /\ Memop(p) = "COPY" /\ ~tf[p].regs.eax.regs
        /\ PTOFF(Sva(p)) = 0 /\ PTOFF(Dva(p)) = 0 /\ PTOFF(Size(p)) = 0
        /\ VM_USERLO <= Sva(p) /\ Sva(p) + Size(p) <= VM_USERHI
        /\ VM_USERLO <= Dva(p) /\ Dva(p) < VM_USERHI
        /\ (Dva(p) + Size(p)) % AddrSpace = 0 /\ Size(p) > 0

\* C6 as stated: at the MEMOP step of a PUT or GET with COPY, ZERO or MERGE,
\* if any of sva, dva, size is not page-table-aligned the step reflects
\* T_GPFLT and changes no pdir or rpdir.
C6_StepAsStated ==
    \A p \in RealProcs :
        (/\ At(p, "put_memop") \/ At(p, "get_memop")
         /\ Memop(p) \in {"COPY", "ZERO", "MERGE"}
         /\ PTOFF(Sva(p)) # 0 \/ PTOFF(Dva(p)) # 0 \/ PTOFF(Size(p)) # 0)
            => Reflects(p, T_GPFLT)
C6_MisalignedRefusedAsStated == [][C6_StepAsStated]_vars
\* C6 amended: at the MEMOP step of a PUT or GET with COPY, ZERO or MERGE, if
\* dva or size is not page-table-aligned, or sva is not and the operation is
\* COPY or MERGE, the step reflects T_GPFLT and changes no pdir or rpdir; and
\* no step of the handler before the MEMOP step changes a pdir or an rpdir.
C6_Step ==
    \A p \in RealProcs :
        /\ (/\ At(p, "put_memop") \/ At(p, "get_memop")
            /\ Memop(p) \in {"COPY", "ZERO", "MERGE"}
            /\ \/ PTOFF(Dva(p)) # 0 \/ PTOFF(Size(p)) # 0
               \/ Memop(p) # "ZERO" /\ PTOFF(Sva(p)) # 0)
              => Reflects(p, T_GPFLT)
        /\ (Running(p) /\ pc'[p] # pc[p]
            /\ pc[p] \in {"user", "put_lock", "put_find", "put_wait", "put_unlock",
                          "get_lock", "get_find", "get_wait", "get_unlock",
                          "usercopy", "memmove",
                          "put_memcpy", "get_memcpy"})
              => (pdir' = pdir /\ rpdir' = rpdir)
C6_MisalignedRefused == [][C6_Step]_vars
\* A ZERO was refused whose destination is aligned and fits user space, and
\* whose size is not aligned.
C6_Witness ==
    \E p \in RealProcs :
        /\ Running(p) /\ pc[p] = "proc_ret0" /\ tf[p].trapno = T_GPFLT
        /\ Memop(p) = "ZERO" /\ PTOFF(Size(p)) # 0
        /\ PTOFF(Dva(p)) = 0 /\ VM_USERLO <= Dva(p)
        /\ Dva(p) + Size(p) <= VM_USERHI

\* C7: the MEMOP step of a PUT whose MEMOP is MERGE reflects T_GPFLT and
\* changes no pdir, rpdir or process state; such a PUT never gets to its PERM,
\* SNAP or START step or to its return; and a MEMOP step of a PUT changes a
\* pdir only for COPY and ZERO.
C7_Step ==
    \A p \in RealProcs :
        /\ (At(p, "put_memop") /\ Memop(p) \notin {"NONE", "COPY", "ZERO"})
              => (Reflects(p, T_GPFLT) /\ pstate' = pstate)
        /\ (At(p, "put_memop") /\ pdir' # pdir) => Memop(p) \in {"COPY", "ZERO"}
C7_NoPastMemop ==
    \A p \in RealProcs :
        (Running(p) /\ Type(p) = "PUT" /\ Memop(p) = "MERGE")
            => pc[p] \notin {"put_perm", "put_snap", "put_start", "trap_return"}
C10_SnapshotAfterMemopAndPerm ==
    \A p \in RealProcs :
        (/\ Running(p) /\ Type(p) = "PUT" /\ tf[p].regs.eax.snap
         /\ pc[p] \in {"put_start", "trap_return"})
        => /\ \A n \in UPages : rpdir[cp[p]][n] = pdir[cp[p]][n]
           /\ \A n \in UPages :
                 InRange(n, Dva(p), Size(p)) =>
                    /\ Memop(p) = "COPY" =>
                          rpdir[cp[p]][n].pg =
                              pdir[p][n + ((Sva(p) - Dva(p)) \div PAGESIZE)].pg
                    /\ Memop(p) = "ZERO" => rpdir[cp[p]][n].pg = 0
                    /\ tf[p].regs.eax.perm =>
                          rpdir[cp[p]][n].perm = tf[p].regs.eax.rw
\* A PUT with COPY, PERM and SNAP returns: the child's pages differ from the
\* caller's in the permission just set, and the snapshot has them.
C10_Witness ==
    \E p \in RealProcs :
        /\ Running(p) /\ pc[p] = "trap_return" /\ Type(p) = "PUT"
        /\ tf[p].regs.eax.snap /\ tf[p].regs.eax.perm /\ Memop(p) = "COPY"
        /\ Size(p) > 0 /\ Sva(p) # Dva(p)
        /\ rpdir[cp[p]] # pdir[p] /\ rpdir[cp[p]] # EmptyPdir

\* C8: a populated slot of a child table keeps its process for ever; a table
\* changes only at the find step of a PUT, by allocating a process no table
\* holds for the slot edx & 0xff, which was empty; slots are within 0..255;
\* and the child a PUT works on is the one in the slot edx & 0xff, whatever
\* edx holds above the low 8 bits and however often the PUT was executed again.
Slot(p) == tf[p].regs.edx % NCHILD
C8_Step ==
    \A p \in RealProcs :
        /\ \A i \in DOMAIN child[p] :
              i \in DOMAIN child'[p] /\ child'[p][i] = child[p][i]
        /\ child'[p] # child[p] =>
              /\ Running(p) /\ pc[p] = "put_find" /\ Type(p) = "PUT"
              /\ Slot(p) \notin DOMAIN child[p]
              /\ DOMAIN child'[p] = DOMAIN child[p] \cup {Slot(p)}
              /\ \A q \in RealProcs : \A i \in DOMAIN child[q] :
                    child[q][i] # child'[p][Slot(p)]
              /\ nproc' = nproc + 1
C8_Resolved ==
    \A p \in RealProcs :
        /\ DOMAIN child[p] \subseteq 0..(NCHILD - 1)
        /\ (Running(p) /\ Type(p) = "PUT" /\ pc[p] \in PutWindow)
              => (Slot(p) \in DOMAIN child[p] /\ cp[p] = child[p][Slot(p)])
C8_ChildIdentityStable == [](C8_Resolved) /\ [][C8_Step]_vars
\* A PUT with index 0 has resolved the child that an earlier PUT with index
\* NCHILD created and gave its FPU state to.
C8_Witness ==
    \E p \in RealProcs :
        /\ Running(p) /\ pc[p] = "put_unlock" /\ Type(p) = "PUT"
        /\ tf[p].regs.edx = 0 /\ cp[p] # NULL
        /\ sv[cp[p]].fx = XKern.fx

\* C9: the null process is always STOP with its save-area, pdir and rpdir as
\* they were at boot, and nothing waits for it; the find step of a GET on an
\* empty slot resolves to the null process, goes on without waiting, and
\* leaves every child table and the number of processes unchanged.
C9_NullUntouched ==
    /\ pstate[ProcNull] = "STOP"
    /\ sv[ProcNull] = ZeroSv
    /\ pdir[ProcNull] = EmptyPdir /\ rpdir[ProcNull] = EmptyPdir
    /\ \A p \in Procs : waitchild[p] # ProcNull
    /\ \A p \in RealProcs : \A i \in DOMAIN child[p] : child[p][i] # ProcNull
C9_Step ==
    \A p \in RealProcs :
        (At(p, "get_find") /\ Slot(p) \notin DOMAIN child[p])
            => /\ cp'[p] = ProcNull
               /\ pc'[p] = "get_unlock" /\ pstate'[p] = "RUN"
               /\ child' = child /\ nproc' = nproc
C9_GetOnEmptySlot == [](C9_NullUntouched) /\ [][C9_Step]_vars
\* A GET with REGS, FPU and SNAP on an empty slot went through the register
\* transfer on the null process, with the caller's memory at the pointer
\* holding other contents before, and was refused at its SNAP step.
C9_Witness ==
    \E p \in RealProcs :
        /\ Running(p) /\ pc[p] = "proc_ret0" /\ Type(p) = "GET"
        /\ cp[p] = ProcNull /\ tf[p].trapno = T_GPFLT
        /\ tf[p].regs.eax.fpu /\ umem[p] = ZeroSv

\* The positions of the GET handler.
GetPcs == {"get_lock", "get_find"} \cup GetWindow
\* C11 as stated: a GET with SNAP that reflects a trap reflects T_GPFLT.
C11_GetSnapReflectsOnlyGP ==
    \A p \in RealProcs :
        (Running(p) /\ Type(p) = "GET" /\ tf[p].regs.eax.snap /\ pc[p] = "proc_ret0")
            => tf[p].trapno = T_GPFLT
\* C11 amended: a GET with SNAP never gets to its return to the caller; its
\* SNAP step reflects T_GPFLT (an earlier step may have reflected the trap of
\* that step instead); and no step of a GET handler changes the state,
\* save-area, pdir or rpdir of another process.
C11_NoReturn ==
    \A p \in RealProcs :
        (Running(p) /\ Type(p) = "GET" /\ tf[p].regs.eax.snap)
            => pc[p] # "trap_return"
C11_Step ==
    \A p \in RealProcs :
        /\ (At(p, "get_snap") /\ tf[p].regs.eax.snap) => Reflects(p, T_GPFLT)
        /\ (Running(p) /\ Type(p) = "GET" /\ pc[p] \in GetPcs /\ pc'[p] # pc[p])
              => \A c \in Procs \ {p} :
                    /\ pstate'[c] = pstate[c] /\ sv'[c] = sv[c]
                    /\ pdir'[c] = pdir[c] /\ rpdir'[c] = rpdir[c]
C11_GetSnapRefused == [](C11_NoReturn) /\ [][C11_Step]_vars
\* A GET with REGS, FPU and SNAP on a child that exists went through the
\* register transfer and was refused at its SNAP step.
C11_Witness ==
    \E p \in RealProcs :
        /\ Running(p) /\ pc[p] = "proc_ret0" /\ Type(p) = "GET"
        /\ tf[p].regs.eax.snap /\ tf[p].trapno = T_GPFLT
        /\ cp[p] \in RealProcs /\ umem[p] = sv[cp[p]]

\* A trapframe with the selectors and flags a PUT leaves in it.
UserModeTf(x) ==
    [x EXCEPT !.cs = UCODE3, !.ds = UDATA3, !.es = UDATA3, !.ss = UDATA3,
              !.eflags = (x.eflags \cap FL_USER) \cup FL_IF]
\* The positions of a GET after its register transfer.
GetAfterRegs == {"get_memop", "get_perm", "get_snap", "trap_return"}
\* C12: when a GET with REGS is past its register transfer and the child was
\* given X by a PUT with REGS, with no START and no other PUT with REGS on it
\* since, the caller's memory holds X's trapframe with the user-mode selectors
\* and the masked eflags; with FPU on both calls it holds X's fx too.  The
\* transfer of a PUT or GET without FPU leaves fx of the destination as it was.
C12_RoundTrip ==
    \A p \in RealProcs :
        (/\ Running(p) /\ Type(p) = "GET" /\ tf[p].regs.eax.regs
         /\ pc[p] \in GetAfterRegs /\ lastput[cp[p]].any)
        => /\ umem[p].tf = UserModeTf(lastput[cp[p]].x.tf)
           /\ (tf[p].regs.eax.fpu /\ lastput[cp[p]].fpu)
                 => umem[p].fx = lastput[cp[p]].x.fx
C12_Step ==
    \A p \in RealProcs :
        (/\ Running(p) /\ pc'[p] # pc[p] /\ ~tf[p].regs.eax.fpu
         /\ Type(p) \in {"PUT", "GET"}
         /\ pc[p] \in {"memmove", "put_memcpy", "get_memcpy"})
        => /\ umem'[p].fx = umem[p].fx
           /\ \A c \in Procs : sv'[c].fx = sv[c].fx
C12_PutThenGet == [](C12_RoundTrip) /\ [][C12_Step]_vars
\* A GET with REGS and FPU returns the state a PUT with REGS and FPU gave the
\* child: the caller asked for kernel selectors and got the user-mode ones.
C12_Witness ==
    \E p \in RealProcs :
        /\ Running(p) /\ pc[p] = "trap_return" /\ Type(p) = "GET"
        /\ tf[p].regs.eax.regs /\ tf[p].regs.eax.fpu
        /\ lastput[cp[p]].any /\ lastput[cp[p]].fpu
        /\ lastput[cp[p]].x = XKern
        /\ umem[p].fx = XKern.fx /\ umem[p].tf.cs = UCODE3
        /\ umem[p].tf # XKern.tf

\* A trapframe that runs in user mode with no privileged flag.
IsUserMode(t) ==
    /\ t.cs = UCODE3 /\ t.ds = UDATA3 /\ t.es = UDATA3 /\ t.ss = UDATA3
    /\ t.eflags \subseteq (FL_USER \cup FL_IF) /\ FL_IF \subseteq t.eflags
PutAfterRegs == {"put_memop", "put_perm", "put_snap", "put_start", "trap_return"}
\* C13: when a PUT with REGS is past its register transfer the child's saved
\* selectors are the user-mode ones and its saved eflags are within
\* FL_USER | FL_IF with FL_IF set; and no process is ever READY with a saved
\* state of another kind.
C13_UserModeChildren ==
    /\ \A p \in RealProcs :
          (Running(p) /\ Type(p) = "PUT" /\ tf[p].regs.eax.regs
           /\ pc[p] \in PutAfterRegs)
              => IsUserMode(sv[cp[p]].tf)
    /\ \A c \in RealProcs : pstate[c] = "READY" => IsUserMode(sv[c].tf)

\* C14: a CPUTS whose string of at most CPUTS_MAX characters and its NUL lie
\* inside [USERLO, USERHI) is not refused by the validation; and the console
\* receives the characters of the string, after which the handler returns to
\* the caller.
C14_Step ==
    \A p \in RealProcs :
        /\ (/\ At(p, "usercopy") /\ Type(p) = "CPUTS"
            /\ umem[p].len <= CPUTS_MAX
            /\ VM_USERLO <= Uva(p) /\ Uva(p) + umem[p].len + 1 <= VM_USERHI)
              => pc'[p] = "memmove"
        /\ (At(p, "cputs_print") /\ umem[p].len <= CPUTS_MAX)
              => /\ console' = <<Uva(p), umem[p].len>>
                 /\ pc'[p] = "trap_return"
C14_CputsPrintsUserStrings == [][C14_Step]_vars

\* C15: a process waits only in a PUT or GET, for a child of its own that is
\* not STOP, with its lock released and its saved eip at the INT instruction;
\* it leaves WAIT only by the step that makes that child STOP, which makes it
\* READY; resumed, it executes the same syscall again from the handler's
\* first step with the same registers; and, scheduling being fair, a process
\* that waits either waits forever (its child never stops) or gets to the
\* end of its syscall: a return to user mode after the INT, or a trap
\* reflected to its own parent.
Waiting(p) == pstate[p] = "WAIT"
Finished(p) ==
    \/ pstate[p] = "RUN" /\ pc[p] = "user" /\ tf[p].eip = INTLEN
    \/ pstate[p] = "STOP"
    \/ panicked # ""
C15_NoLostWakeup ==
    \A p \in RealProcs :
        Waiting(p) =>
            /\ waitchild[p] \in RealProcs
            /\ parent[waitchild[p]] = p
            /\ pstate[waitchild[p]] # "STOP"
            /\ lock[p] = NULL
            /\ sv[p].tf.eip = 0
            /\ sv[p].tf.regs.eax.type \in {"PUT", "GET"}
C15_Step ==
    \A p \in RealProcs :
        /\ (Waiting(p) /\ pstate'[p] # "WAIT")
              => /\ pstate'[p] = "READY"
                 /\ pstate[waitchild[p]] = "RUN"
                 /\ pstate'[waitchild[p]] = "STOP"
                 /\ sv'[p] = sv[p]
        /\ (Waiting(p) /\ pstate'[waitchild[p]] = "STOP") => pstate'[p] = "READY"
        /\ (At(p, "user") /\ tf[p].eip = 0)
              => /\ tf'[p].regs = tf[p].regs
                 /\ umem'[p] = umem[p]
                 /\ Type(p) = "PUT" => pc'[p] = "put_lock"
                 /\ Type(p) = "GET" => pc'[p] = "get_lock"
C15_Live ==
    \A p \in RealProcs : [](Waiting(p) => ([]Waiting(p) \/ <>Finished(p)))
C15_BlockedParentWoken == [](C15_NoLostWakeup) /\ [][C15_Step]_vars /\ C15_Live
\* A parent that waited in a PUT for its running child has executed the PUT
\* again and is past the wait, with the child stopped at a RET.
C15_Witness ==
    \E p \in RealProcs :
        /\ Running(p) /\ Type(p) = "PUT" /\ pc[p] = "put_unlock"
        /\ sv[p].tf.eip = 0 /\ sv[p].tf.regs = tf[p].regs
        /\ cp[p] # NULL /\ pstate[cp[p]] = "STOP"
        /\ sv[cp[p]].tf.eip = INTLEN /\ sv[cp[p]].tf.trapno = T_SYSCALL

\* C16: the step that ends a RET makes the caller STOP, frees its CPU, readies
\* a parent that waits for it, and saves the caller's trapframe unchanged,
\* with eip after the INT; a process started again from such a state is not
\* at its INT instruction, so it does not execute RET again.  A step that
\* reflects a trap changes only trapno and err of the caller's trapframe, to
\* T_GPFLT or T_PGFLT and the error code; the step that follows makes the
\* caller STOP and saves that trapframe with eip at the INT instruction.
Traps == {T_GPFLT, T_PGFLT}
Stops(p) ==
    /\ pstate'[p] = "STOP"
    /\ cur'[Cpu(p)] = NULL
    /\ (parent[p] # NULL /\ pstate[parent[p]] = "WAIT" /\ waitchild[parent[p]] = p)
          => pstate'[parent[p]] = "READY"
C16_Step ==
    \A p \in RealProcs :
        /\ At(p, "proc_ret1")
              => /\ Type(p) = "RET"
                 /\ Stops(p)
                 /\ sv'[p].tf = tf[p]
                 /\ sv'[p].tf.eip = INTLEN /\ sv'[p].tf.trapno = T_SYSCALL
        /\ At(p, "proc_ret0")
              => /\ Stops(p)
                 /\ sv'[p].tf = [tf[p] EXCEPT !.eip = 0]
                 /\ sv'[p].tf.trapno \in Traps
        /\ (Running(p) /\ pc[p] # "proc_ret0" /\ pc'[p] = "proc_ret0")
              => /\ tf[p].trapno = T_SYSCALL /\ tf[p].eip = INTLEN
                 /\ tf'[p].trapno \in Traps
                 /\ tf'[p] = [tf[p] EXCEPT !.trapno = tf'[p].trapno,
                                           !.err = tf'[p].err]
                 /\ pstate' = pstate
        /\ (pstate[p] = "READY" /\ pstate'[p] = "RUN") => tf'[p] = sv[p].tf
C16_NoRetAgain ==
    \A p \in RealProcs :
        (Running(p) /\ pc[p] = "user" /\ Type(p) = "RET") => tf[p].eip = INTLEN
C16_RetAdvancesTrapDoesNot == [](C16_NoRetAgain) /\ [][C16_Step]_vars
\* A child that stopped at a RET was started again and is in user mode after
\* that RET, free to choose its next syscall.
C16_Witness ==
    \E p \in RealProcs :
        /\ Running(p) /\ pc[p] = "user" /\ parent[p] # NULL
        /\ Type(p) = "RET" /\ tf[p].eip = INTLEN /\ tf[p].trapno = T_SYSCALL

\* C17: a step from inside usercopy's memmove either completes the move and
\* leaves the caller's trapframe alone, or is the fault: then the caller's
\* trapframe keeps its registers and eip and gets trapno T_PGFLT and the
\* hardware error code, the slot is emptied, and no page map, process state,
\* lock or console output changes.  The caller's next step saves exactly that
\* trapframe, with eip at the INT, and stops the caller, changing no other
\* save-area, page map or console output.  No process is at a later position
\* of a handler with a trap number other than that of the syscall.
HandlerPcs ==
    {"usercopy", "memmove", "cputs_print", "put_lock", "put_find", "put_wait",
     "put_unlock", "put_memcpy", "put_memop", "put_perm", "put_snap", "put_start",
     "get_lock", "get_find", "get_wait", "get_unlock", "get_memcpy", "get_memop",
     "get_perm", "get_snap", "trap_return", "proc_ret1"}
C17_Step ==
    \A p \in RealProcs :
        /\ At(p, "memmove")
              => \/ pc'[p] = UcNext(tf[p]) /\ tf'[p] = tf[p]
                 \/ /\ pc'[p] = "proc_ret0"
                    /\ \E e \in FaultErrs :
                          tf'[p] = [tf[p] EXCEPT !.trapno = T_PGFLT, !.err = e]
                    /\ recover'[Cpu(p)] = NoRecover
                    /\ pdir' = pdir /\ rpdir' = rpdir /\ pstate' = pstate
                    /\ lock' = lock /\ console' = console
        /\ At(p, "proc_ret0")
              => /\ pc'[p] = "user" /\ pstate'[p] = "STOP"
                 /\ sv'[p].tf = [tf[p] EXCEPT !.eip = 0]
                 /\ \A q \in Procs : q # p => sv'[q] = sv[q]
                 /\ pdir' = pdir /\ rpdir' = rpdir /\ console' = console
C17_NoReturnIntoHandler ==
    \A p \in RealProcs :
        (Running(p) /\ pc[p] \in HandlerPcs) => tf[p].trapno = T_SYSCALL
PutOrder ==
    {<<"user", "put_lock">>, <<"put_lock", "put_find">>, <<"put_find", "put_wait">>,
     <<"put_find", "put_unlock">>, <<"put_wait", "user">>,
     <<"put_unlock", "usercopy">>, <<"put_unlock", "put_memop">>,
     <<"usercopy", "memmove">>, <<"usercopy", "proc_ret0">>,
     <<"memmove", "put_memcpy">>, <<"memmove", "proc_ret0">>,
     <<"put_memcpy", "put_memop">>,
     <<"put_memop", "put_perm">>, <<"put_memop", "proc_ret0">>,
     <<"put_perm", "put_snap">>, <<"put_perm", "proc_ret0">>,
     <<"put_snap", "put_start">>, <<"put_start", "trap_return">>,
     <<"trap_return", "user">>, <<"proc_ret0", "user">>}
C18_Step ==
    \A p \in RealProcs :
        (Running(p) /\ Type(p) = "PUT" /\ pc'[p] # pc[p])
        => /\ <<pc[p], pc'[p]>> \in PutOrder
           /\ \A c \in Procs :
                 parent[c] = p =>
                    /\ sv'[c] # sv[c] =>
                          /\ pc[p] \in {"memmove", "put_memcpy"}
                          /\ tf[p].regs.eax.regs /\ c = cp[p]
                    /\ pdir'[c] # pdir[c] =>
                          /\ pc[p] \in {"put_memop", "put_perm"} /\ c = cp[p]
                    /\ rpdir'[c] # rpdir[c] =>
                          /\ pc[p] = "put_snap" /\ tf[p].regs.eax.snap /\ c = cp[p]
                    /\ pstate'[c] # pstate[c] =>
                          /\ pc[p] = "put_start" /\ tf[p].regs.eax.start
                          /\ c = cp[p] /\ pstate[c] = "STOP"
                          /\ pstate'[c] = "READY"
           /\ (pc[p] = "put_start" /\ tf[p].regs.eax.start)
                 => pstate'[cp[p]] = "READY"
C18_ChildAfterPut ==
    \A p \in RealProcs :
        (Running(p) /\ Type(p) = "PUT")
        => /\ (pc[p] = "trap_return" /\ ~tf[p].regs.eax.start)
                 => pstate[cp[p]] = "STOP"
           /\ pc[p] = "proc_ret0"
                 => /\ cp[p] # NULL /\ pstate[cp[p]] = "STOP"
                    /\ (tf[p].trapno = T_GPFLT /\ tf[p].regs.eax.regs)
                          => /\ sv[cp[p]].tf = UserModeTf(umem[p].tf)
                             /\ tf[p].regs.eax.fpu => sv[cp[p]].fx = umem[p].fx
C18_PutStepsInOrder == [](C18_ChildAfterPut) /\ [][C18_Step]_vars
\* A PUT with REGS, MERGE, PERM, SNAP and START reflects the T_GPFLT of its
\* MEMOP step: the child has the registers given, over those and beside the
\* FPU state of an earlier PUT, and is still stopped.
C18_Witness ==
    \E p \in RealProcs :
        /\ Running(p) /\ Type(p) = "PUT" /\ pc[p] = "proc_ret0"
        /\ tf[p].trapno = T_GPFLT /\ Memop(p) = "MERGE"
        /\ tf[p].regs.eax.regs /\ tf[p].regs.eax.perm
        /\ tf[p].regs.eax.snap /\ tf[p].regs.eax.start
        /\ umem[p] = XUser /\ sv[cp[p]].tf = UserModeTf(XUser.tf)
        /\ sv[cp[p]].fx = XKern.fx
        /\ pstate[cp[p]] = "STOP"

\* C19: a step changes the rpdir of a process only if it is the SNAP step of
\* a PUT with SNAP whose resolved child, in the slot the PUT names, is that
\* process; every other step (of a PUT without SNAP, of a GET, of CPUTS, of a
\* reflected trap, of the scheduler) leaves every rpdir as it is.
C19_Step ==
    \A c \in Procs :
        rpdir'[c] # rpdir[c]
        => \E p \in RealProcs :
              /\ At(p, "put_snap") /\ Type(p) = "PUT" /\ tf[p].regs.eax.snap
              /\ cp[p] = c
              /\ Slot(p) \in DOMAIN child[p] /\ child[p][Slot(p)] = c
C19_RpdirOnlyBySnap == [][C19_Step]_vars
\* A PUT with REGS, COPY and START, without SNAP, returns: the child is
\* started, its pdir has the pages copied, and its rpdir is still the
\* snapshot an earlier PUT took.
C19_Witness ==
    \E p \in RealProcs :
        /\ Running(p) /\ Type(p) = "PUT" /\ pc[p] = "trap_return"
        /\ tf[p].regs.eax.regs /\ Memop(p) = "COPY" /\ tf[p].regs.eax.start
        /\ ~tf[p].regs.eax.snap
        /\ pstate[cp[p]] = "READY"
        /\ rpdir[cp[p]] # EmptyPdir /\ rpdir[cp[p]] # pdir[cp[p]]

\* C20: whenever a PUT or GET handler is at a position that reads or writes
\* the caller's memory at the pointer in EBX (the memmove inside usercopy,
\* and the memcpy through the same pointer that follows usercopy's return),
\* the recovery slot of its CPU holds sysrecover.
UserAccessPcs == {"memmove", "put_memcpy", "get_memcpy"}
C20_UserAccessOnlyInUsercopy ==
    \A p \in RealProcs :
        (Running(p) /\ Type(p) \in {"PUT", "GET"} /\ pc[p] \in UserAccessPcs)
            => recover[Cpu(p)] = "sysrecover"

====
